---- MODULE Spec2Model ----
(***************************************************************************)
(* State-machine model of serverless-plugin-stage-reserved-concurrency.    *)
(*                                                                         *)
(* The repository holds two entry implementations of the plugin:           *)
(*   "batched" : src/unnamed/part_000 (batches of 5, single-function hook) *)
(*   "legacy"  : src/src/index.ts     (sequential loop, no single form)    *)
(* The variable `variant` says which of the two was loaded by the host.    *)
(*                                                                         *)
(* Strings are TLA+ strings; a character is a substring of length one.     *)
(***************************************************************************)
EXTENDS Integers, Sequences, FiniteSets, Bags, TLC

(***************************************************************************)
(* Bounds of the model (not program constants).                            *)
(***************************************************************************)
\* functions in the descriptor, in the specification that varies the descriptor
MaxFunctions == 3
\* functions in the descriptor, in the specification that varies remote state
MaxBulkFunctions == 7
\* remote requests that fail during one behaviour
MaxFailures == 1
\* times the operator runs the command (each run is a fresh plugin instance)
MaxRuns == 2

(***************************************************************************)
(* Program constants.                                                      *)
(***************************************************************************)
WARMUP_FUNCTION_IDENTIFIER == "warmUp"
DEV_STAGES == <<"dev", "development", "feature">>
AWS_CONCURRENCY_BATCH_SIZE == 5

(***************************************************************************)
(* String primitives of the runtime, computed character by character.      *)
(***************************************************************************)
UpperChars == "ABCDEFGHIJKLMNOPQRSTUVWXYZ"
LowerChars == "abcdefghijklmnopqrstuvwxyz"

CharAt(s, k) == SubSeq(s, k, k)

toLowerCaseChar(c) ==
  IF \E k \in 1..Len(UpperChars) : CharAt(UpperChars, k) = c
  THEN CharAt(LowerChars, CHOOSE k \in 1..Len(UpperChars) : CharAt(UpperChars, k) = c)
  ELSE c

RECURSIVE toLowerCase(_)
toLowerCase(s) ==
  IF Len(s) = 0 THEN ""
  ELSE toLowerCaseChar(CharAt(s, 1)) \o toLowerCase(SubSeq(s, 2, Len(s)))

startsWith(s, p) == Len(s) >= Len(p) /\ SubSeq(s, 1, Len(p)) = p

\* String.prototype.includes: p occurs in s at some position
includes(s, p) ==
  \E k \in 1..(Len(s) - Len(p) + 1) : SubSeq(s, k, k + Len(p) - 1) = p

\* Array.prototype.includes
arrayIncludes(arr, x) == \E k \in 1..Len(arr) : arr[k] = x

Min(a, b) == IF a < b THEN a ELSE b

(***************************************************************************)
(* Stage classification.                                                   *)
(***************************************************************************)
\* a plausible slip: the prefix rule written without its dash
isDevelopmentStage_prefixWithoutDash(stage) ==
  LET lowerStage == toLowerCase(stage)
  IN  arrayIncludes(DEV_STAGES, lowerStage) \/ startsWith(lowerStage, "feature")

\* part_000: DEV_STAGES.includes(lowerStage) || lowerStage.startsWith('feature-')
_isDevelopmentStage(stage) ==
  LET lowerStage == toLowerCase(stage)
  IN  arrayIncludes(DEV_STAGES, lowerStage) \/ startsWith(lowerStage, "feature-")

\* index.ts: the same predicate written as a chain of comparisons
_isDevelopmentStageLegacy(stage) ==
  LET lowerStage == toLowerCase(stage)
  IN  \/ lowerStage = "dev"
      \/ lowerStage = "development"
      \/ lowerStage = "feature"
      \/ startsWith(lowerStage, "feature-")

(***************************************************************************)
(* Names of the three operations a hook can be bound to.                   *)
(***************************************************************************)
OpSLS == "_removeReservedConcurrencyFromSLS"
OpAws == "_removeReservedConcurrencyFromAws"
OpAwsForFunction == "_removeReservedConcurrencyFromAwsForFunction"

NoHooks == [e \in {} |-> ""]

\* a plausible slip: the hooks are registered whatever the stage is
HooksBatched_ignoreStage(stage) ==
  ("before:deploy:deploy" :> OpSLS)
  @@ ("before:deploy:function:deploy" :> OpSLS)
  @@ ("before:package:createDeploymentArtifacts" :> OpSLS)
  @@ ("before:aws:deploy:deploy:createStack" :> OpSLS)
  @@ ("after:aws:deploy:deploy:updateStack" :> OpAws)
  @@ ("after:deploy:function:deploy" :> OpAwsForFunction)

\* a plausible slip: bulk reconciliation bound to the point before the deploy
HooksBatched_awsBeforeDeploy(stage) ==
  IF _isDevelopmentStage(stage)
  THEN ("before:deploy:deploy" :> OpAws)
       @@ ("before:deploy:function:deploy" :> OpSLS)
       @@ ("before:package:createDeploymentArtifacts" :> OpSLS)
       @@ ("before:aws:deploy:deploy:createStack" :> OpSLS)
       @@ ("after:aws:deploy:deploy:updateStack" :> OpAws)
       @@ ("after:deploy:function:deploy" :> OpAwsForFunction)
  ELSE NoHooks

\* part_000 constructor: the hooks mapping
HooksBatched(stage) ==
  IF _isDevelopmentStage(stage)
  THEN ("before:deploy:deploy" :> OpSLS)
       @@ ("before:deploy:function:deploy" :> OpSLS)
       @@ ("before:package:createDeploymentArtifacts" :> OpSLS)
       @@ ("before:aws:deploy:deploy:createStack" :> OpSLS)
       @@ ("after:aws:deploy:deploy:updateStack" :> OpAws)
       @@ ("after:deploy:function:deploy" :> OpAwsForFunction)
  ELSE NoHooks

\* index.ts constructor: the hooks mapping
HooksLegacy(stage) ==
  IF _isDevelopmentStageLegacy(stage)
  THEN ("before:package:initialize" :> OpSLS)
       @@ ("after:deploy:deploy" :> OpAws)
       @@ ("after:deploy:function:deploy" :> OpAws)
  ELSE NoHooks

Hooks(v, stage) == IF v = "batched" THEN HooksBatched(stage) ELSE HooksLegacy(stage)

\* the constructor's log line
DetectionMessage(v, stage) ==
  LET isDev == IF v = "batched" THEN _isDevelopmentStage(stage)
               ELSE _isDevelopmentStageLegacy(stage)
  IN  IF isDev
      THEN "Development stage detected (" \o stage
           \o "). Plugin will remove reserved concurrency settings."
      ELSE "Production stage detected (" \o stage
           \o "). Plugin will not modify any concurrency settings."

(***************************************************************************)
(* The log sink: a bag of (level, message).                                *)
(***************************************************************************)
Msg(level, message) == [level |-> level, message |-> message]
Logged(bag, level, message) == bag (+) SetToBag({Msg(level, message)})
LogCount(bag, level, message) == CopiesIn(Msg(level, message), bag)

RECURSIVE LoggedAll(_, _, _)
LoggedAll(bag, level, messages) ==
  IF messages = <<>> THEN bag
  ELSE LoggedAll(Logged(bag, level, Head(messages)), level, Tail(messages))

(***************************************************************************)
(* The host pipeline: the extension points it fires, in order, for the two *)
(* commands.  An entry without a before:/after: prefix is the host's own   *)
(* step for that lifecycle event.                                          *)
(***************************************************************************)
DeployLifecycle ==
  << "before:package:initialize",
     "package:initialize",
     "before:package:createDeploymentArtifacts",
     "package:createDeploymentArtifacts",
     "before:deploy:deploy",
     "before:aws:deploy:deploy:createStack",
     "aws:deploy:deploy:createStack",
     "aws:deploy:deploy:updateStack",
     "after:aws:deploy:deploy:updateStack",
     "after:deploy:deploy" >>

DeployFunctionLifecycle ==
  << "deploy:function:packageFunction",
     "before:deploy:function:deploy",
     "deploy:function:deploy",
     "after:deploy:function:deploy" >>

Lifecycle(c) == IF c = "deploy" THEN DeployLifecycle ELSE DeployFunctionLifecycle

Commands == {"deploy", "deploy function"}

\* the host's own steps that build artifacts from the descriptor
PackagingSteps == {"package:createDeploymentArtifacts", "deploy:function:packageFunction"}
\* the host's own steps that perform the deploy call
DeploySteps == {"aws:deploy:deploy:updateStack", "deploy:function:deploy"}

IsHookPoint(e) == startsWith(e, "before:") \/ startsWith(e, "after:")

(***************************************************************************)
(* Descriptor and remote data.                                             *)
(***************************************************************************)
ServiceName == "svc"

\* logical function names, in the order the descriptor lists them
NamePool ==
  << "a", "warmUpPluginDefault", "b", "warmup", "c", "d", "e", "f", "g", "h", "k" >>

\* a target name the operator may give that the descriptor does not hold
ForeignName == "zz"

AllNames == {NamePool[k] : k \in 1..Len(NamePool)} \cup {ForeignName}

\* the shapes a function definition takes in the descriptor
PlainDefinition == [handler |-> "h"]
FunctionDefinitions ==
  { PlainDefinition,
    [handler |-> "h", reservedConcurrency |-> 0],
    [handler |-> "h", reservedConcurrency |-> 5, concurrency |-> [provisioned |-> 1]] }

\* an entry of the functions mapping whose value is null (a name with no body
\* in the descriptor file); a record told apart by its only field
NullDefinition == [null |-> TRUE]

\* `${service}-${stage}-${functionName}`
_getFunctionName(service, stage, functionName) ==
  service \o "-" \o stage \o "-" \o functionName

\* a plausible slip: the skip test is lost
shouldSkipFunction_never(awsFunctionName) == FALSE

\* awsFunctionName.includes(WARMUP_FUNCTION_IDENTIFIER)
_shouldSkipFunction(awsFunctionName) ==
  includes(awsFunctionName, WARMUP_FUNCTION_IDENTIFIER)

\* a plausible slip: truthiness instead of presence
hasReservedConcurrency_truthy(config) ==
  "reservedConcurrency" \in DOMAIN config /\ config.reservedConcurrency # 0

\* config.reservedConcurrency !== undefined
hasReservedConcurrency(config) == "reservedConcurrency" \in DOMAIN config

\* a plausible slip: the whole concurrency configuration is deleted
deleteReservedConcurrency_dropsConcurrency(config) ==
  [key \in DOMAIN config \ {"reservedConcurrency", "concurrency"} |-> config[key]]

\* a plausible slip: the field is reset to zero instead of being deleted
deleteReservedConcurrency_resetsToZero(config) ==
  [config EXCEPT !.reservedConcurrency = 0]

\* delete config.reservedConcurrency
deleteReservedConcurrency(config) ==
  [key \in DOMAIN config \ {"reservedConcurrency"} |-> config[key]]

\* _removeConcurrencyFromFunction: the definition after the call
_removeConcurrencyFromFunction(config) ==
  IF hasReservedConcurrency(config) THEN deleteReservedConcurrency(config) ELSE config

\* _processServerlessConfigFunctions: the descriptor's entries after the pass
StrippedEntries(entries) ==
  [k \in 1..Len(entries) |->
     [name |-> entries[k].name, config |-> _removeConcurrencyFromFunction(entries[k].config)]]

\* config.reservedConcurrency on a null config raises a TypeError
TypeErrorMessage == "Cannot read properties of null (reading 'reservedConcurrency')"

\* the first entry, in the order of Object.entries, at which forEach raises; 0
\* when the pass runs to its end
RaisesAt(entries) ==
  IF \E k \in 1..Len(entries) : entries[k].config = NullDefinition
  THEN CHOOSE k \in 1..Len(entries) :
         /\ entries[k].config = NullDefinition
         /\ \A j \in 1..(k - 1) : entries[j].config # NullDefinition
  ELSE 0

\* the descriptor's entries when forEach raised at entry k: the entries before
\* it have been processed, the others have not
StrippedEntriesBefore(entries, k) ==
  [j \in 1..Len(entries) |->
     IF j < k
     THEN [name |-> entries[j].name,
           config |-> _removeConcurrencyFromFunction(entries[j].config)]
     ELSE entries[j]]

\* _processServerlessConfigFunctions: the ProcessingResult it returns
_processServerlessConfigFunctions(entries) ==
  [modifiedCount |-> Cardinality({k \in 1..Len(entries) : hasReservedConcurrency(entries[k].config)}),
   errorCount |-> 0]

\* remote configuration objects
RemoteClean(id) == [FunctionName |-> id]
RemoteReserved(id, n) == [FunctionName |-> id, ReservedConcurrentExecutions |-> n]

\* a plausible slip: the delete is issued whatever the fetch returned
hasReservedConcurrentExecutions_always(config) == TRUE

\* a plausible slip: truthiness instead of presence, a setting of 0 is missed
hasReservedConcurrentExecutions_truthy(config) ==
  /\ "ReservedConcurrentExecutions" \in DOMAIN config
  /\ config.ReservedConcurrentExecutions # 0

\* config.ReservedConcurrentExecutions !== undefined
hasReservedConcurrentExecutions(config) ==
  "ReservedConcurrentExecutions" \in DOMAIN config

(***************************************************************************)
(* State.                                                                  *)
(***************************************************************************)
VARIABLES
  variant,        \* which entry implementation the host loaded
  stage,          \* serverless.service.provider.stage
  options,        \* the options bag; options.function is present or not
  cmd,            \* the command the operator runs
  yml,            \* the descriptor's function entries as the host loads them
  functions,      \* serverless.service.functions: sequence of [name, config]
  remote,         \* remote function configurations, by identifier
  remote0,        \* the remote configurations before the first run
  hooks,          \* the plugin's hooks mapping: extension point -> operation
  hostPc,         \* position of the host in the command's lifecycle
  hostSaw,        \* what the host's packaging and deploy steps found
  run,            \* number of the current run of the command
  op,             \* the operation in progress: none, bulk, bulkLegacy, single
  opPc,           \* its position: idle, loop, await
  i,              \* loop index of the bulk forms
  task,           \* per logical name: the state of its per-function task
  modifiedCount,  \* counters of the operation in progress
  errorCount,
  requests,       \* per identifier: requests issued in this run, by method
  failures,       \* remote requests that failed so far
  log,            \* bag of logged (level, message)
  results,        \* ProcessingResults of the completed operations
  hookOutcome     \* the promise of the last hook invoked

vars == << variant, stage, options, cmd, yml, remote0, functions, remote, hooks, hostPc,
           hostSaw, run, op, opPc, i, task, modifiedCount, errorCount, requests,
           failures, log, results, hookOutcome >>

inputs == << variant, stage, options, cmd, yml, remote0 >>
opVars == << op, opPc, i, task, modifiedCount, errorCount >>

(***************************************************************************)
(* Derived values.                                                         *)
(***************************************************************************)
AwsName(functionName) == _getFunctionName(ServiceName, stage, functionName)

IdsOf(st) == {_getFunctionName(ServiceName, st, n) : n \in AllNames}

NoOptions == [key \in {} |-> ""]
HasFunctionOption == "function" \in DOMAIN options

EntryNames(entries) == {entries[k].name : k \in 1..Len(entries)}

NoRequests(st) == [id \in IdsOf(st) |-> [get |-> 0, del |-> 0]]
IdleTasks == [n \in AllNames |-> "idle"]

Settled == {"skipped", "clean", "modified", "errored"}

\* a plausible slip: the catch block returns an empty result
TaskResult_errorsUncounted(status) ==
  [modifiedCount |-> IF status = "modified" THEN 1 ELSE 0, errorCount |-> 0]

\* a plausible slip: a function found clean is reported as modified
TaskResult_cleanCountsModified(status) ==
  [modifiedCount |-> IF status \in {"modified", "clean"} THEN 1 ELSE 0,
   errorCount |-> IF status = "errored" THEN 1 ELSE 0]

\* a plausible slip: the catch block reports the function as modified too
TaskResult_erroredCountsModified(status) ==
  [modifiedCount |-> IF status \in {"modified", "errored"} THEN 1 ELSE 0,
   errorCount |-> IF status = "errored" THEN 1 ELSE 0]

\* the ProcessingResult a settled per-function task returns
TaskResult(status) ==
  [modifiedCount |-> IF status = "modified" THEN 1 ELSE 0,
   errorCount |-> IF status = "errored" THEN 1 ELSE 0]

CurrentPoint == Lifecycle(cmd)[hostPc]
\* the command is under way: points are left and no hook has failed the run
HostBusy == hostPc <= Len(Lifecycle(cmd)) /\ hookOutcome # "rejected"

\* whether a descriptor-stripping operation completed in this run
StrippedThisRun ==
  \E k \in 1..Len(results) : results[k].run = run /\ results[k].op = OpSLS

ResultRecord(operation, result) ==
  [run |-> run, op |-> operation,
   modifiedCount |-> result.modifiedCount, errorCount |-> result.errorCount]

(***************************************************************************)
(* Construction.  Init is the state after the host has loaded the          *)
(* descriptor and constructed the plugin.                                  *)
(***************************************************************************)
Constructed ==
  /\ functions = yml
  /\ remote0 = remote
  /\ hooks = Hooks(variant, stage)
  /\ hostPc = 1
  /\ hostSaw = <<>>
  /\ run = 1
  /\ op = "none" /\ opPc = "idle" /\ i = 0
  /\ task = IdleTasks
  /\ modifiedCount = 0 /\ errorCount = 0
  /\ requests = NoRequests(stage)
  /\ failures = 0
  /\ log = Logged(EmptyBag, "info", DetectionMessage(variant, stage))
  /\ results = <<>>
  /\ hookOutcome = "none"

\* descriptors of n functions whose definitions are drawn from defs
Descriptors(n, defs) ==
  { [k \in 1..n |-> [name |-> NamePool[k], config |-> c[k]]] : c \in [1..n -> defs] }

\* the option bags for a command; only "deploy function" takes a target
OptionBags(c, targets) ==
  IF c = "deploy" THEN {NoOptions}
  ELSE {NoOptions} \cup {[function |-> t] : t \in targets}

\* Spec: the descriptor varies, every remote function carries the setting
Init ==
  /\ variant \in {"batched", "legacy"}
  /\ stage \in {"dev", "production"}
  /\ cmd \in Commands
  /\ options \in OptionBags(cmd, {"", NamePool[1], NamePool[2], ForeignName})
  /\ \E n \in 0..MaxFunctions : yml \in Descriptors(n, FunctionDefinitions)
  /\ remote = [id \in IdsOf(stage) |-> RemoteReserved(id, 5)]
  /\ Constructed

\* SpecBulk: the remote state varies, over longer function lists.  The remote
\* functions that may carry a setting (of value 0): one of the first batch, the
\* warm-up function, the last of the first batch and one of the second batch
ReservedCandidates == {NamePool[1], NamePool[2], NamePool[5], NamePool[7]}

InitBulk ==
  /\ variant \in {"batched", "legacy"}
  /\ stage = "dev"
  /\ cmd \in Commands
  /\ options \in OptionBags(cmd, {NamePool[1], NamePool[2]})
  /\ \E n \in 0..(IF cmd = "deploy" THEN MaxBulkFunctions ELSE MaxFunctions) :
       yml \in Descriptors(n, {PlainDefinition})
  /\ \E reserved \in SUBSET ReservedCandidates :
       remote = [id \in IdsOf(stage) |->
                 IF \E n \in reserved : id = _getFunctionName(ServiceName, stage, n)
                 THEN RemoteReserved(id, 0) ELSE RemoteClean(id)]
  /\ Constructed

\* SpecFault: the descriptor may hold null definitions, at which the stripping
\* pass raises
InitFault ==
  /\ variant \in {"batched", "legacy"}
  /\ stage = "dev"
  /\ cmd \in Commands
  /\ options \in OptionBags(cmd, {NamePool[1], NamePool[2]})
  /\ \E n \in 0..MaxFunctions :
       yml \in Descriptors(n, {[handler |-> "h", reservedConcurrency |-> 5], NullDefinition})
  /\ remote = [id \in IdsOf(stage) |-> RemoteReserved(id, 5)]
  /\ Constructed

\* SpecLive: as SpecBulk, with the remote setting on every candidate or on none
InitLive ==
  /\ variant \in {"batched", "legacy"}
  /\ stage = "dev"
  /\ cmd \in Commands
  /\ options \in OptionBags(cmd, {NamePool[1], NamePool[2]})
  /\ \E n \in 0..(IF cmd = "deploy" THEN MaxBulkFunctions ELSE MaxFunctions) :
       yml \in Descriptors(n, {PlainDefinition})
  /\ \E reserved \in {{}, ReservedCandidates} :
       remote = [id \in IdsOf(stage) |->
                 IF \E n \in reserved : id = _getFunctionName(ServiceName, stage, n)
                 THEN RemoteReserved(id, 0) ELSE RemoteClean(id)]
  /\ Constructed

\* SpecOne: a descriptor of one function, which is also the target of the
\* single-function deploy; its remote configuration carries the setting or not
InitOne ==
  /\ variant \in {"batched", "legacy"}
  /\ stage = "dev"
  /\ cmd \in Commands
  /\ \E t \in {NamePool[1], NamePool[2]} :
       /\ yml = << [name |-> t, config |-> PlainDefinition] >>
       /\ options \in OptionBags(cmd, {t})
       /\ \E reserved \in SUBSET {t} :
            remote = [id \in IdsOf(stage) |->
                      IF \E n \in reserved : id = _getFunctionName(ServiceName, stage, n)
                      THEN RemoteReserved(id, 0) ELSE RemoteClean(id)]
  /\ Constructed

\* stage names the operator may give: a base name, in three spellings, with a
\* prefix and a suffix
StageBases ==
  {"dev", "development", "feature", "features", "develop", "prod", "production",
   "staging", "test"}
StagePrefixes == {"", "x"}
StageSuffixes == {"", "-", "-1", "-XYZ", "x", "-warmUp"}

toUpperCaseChar(c) ==
  IF \E k \in 1..Len(LowerChars) : CharAt(LowerChars, k) = c
  THEN CharAt(UpperChars, CHOOSE k \in 1..Len(LowerChars) : CharAt(LowerChars, k) = c)
  ELSE c

RECURSIVE toUpperCase(_)
toUpperCase(s) ==
  IF Len(s) = 0 THEN ""
  ELSE toUpperCaseChar(CharAt(s, 1)) \o toUpperCase(SubSeq(s, 2, Len(s)))

Capitalized(s) ==
  IF Len(s) = 0 THEN "" ELSE toUpperCaseChar(CharAt(s, 1)) \o SubSeq(s, 2, Len(s))

StageInputs ==
  {""} \cup
  { p \o b \o x : p \in StagePrefixes,
                  b \in UNION {{c, toUpperCase(c), Capitalized(c)} : c \in StageBases},
                  x \in StageSuffixes }

\* SpecStage: the stage name varies, over one descriptor and one remote state
InitStage ==
  /\ variant \in {"batched", "legacy"}
  /\ stage \in StageInputs
  /\ cmd \in Commands
  /\ options \in OptionBags(cmd, {NamePool[1]})
  /\ yml = << [name |-> NamePool[1],
              config |-> [handler |-> "h", reservedConcurrency |-> 0]],
             [name |-> NamePool[2],
              config |-> [handler |-> "h", reservedConcurrency |-> 5,
                          concurrency |-> [provisioned |-> 1]]] >>
  /\ remote = [id \in IdsOf(stage) |-> RemoteReserved(id, 5)]
  /\ Constructed

(***************************************************************************)
(* The host.                                                               *)
(***************************************************************************)
\* the host's own step for a lifecycle event: packaging, the deploy call, ...
HostCoreStep ==
  /\ HostBusy /\ op = "none"
  /\ ~IsHookPoint(CurrentPoint)
  /\ hostSaw' =
       IF CurrentPoint \in PackagingSteps \cup DeploySteps
       THEN Append(hostSaw,
              [step |-> IF CurrentPoint \in DeploySteps THEN "deploy" ELSE "package",
               reserved |-> {functions[k].name : k \in
                               {j \in 1..Len(functions) : hasReservedConcurrency(functions[j].config)}},
               stripped |-> StrippedThisRun])
       ELSE hostSaw
  /\ hostPc' = hostPc + 1
  /\ UNCHANGED << inputs, functions, remote, hooks, run, opVars, requests, failures,
                  log, results, hookOutcome >>

\* the host fires an extension point nothing is registered on
HostFireUnhooked ==
  /\ HostBusy /\ op = "none"
  /\ IsHookPoint(CurrentPoint)
  /\ CurrentPoint \notin DOMAIN hooks
  /\ hostPc' = hostPc + 1
  /\ UNCHANGED << inputs, functions, remote, hooks, hostSaw, run, opVars, requests,
                  failures, log, results, hookOutcome >>

\* the operator runs the command again: a new process, a new plugin instance
HostRunAgain ==
  /\ ~HostBusy /\ op = "none"
  /\ run < MaxRuns
  /\ run' = run + 1
  /\ functions' = yml
  /\ hooks' = Hooks(variant, stage)
  /\ hostPc' = 1
  /\ hostSaw' = <<>>
  /\ task' = IdleTasks
  /\ opPc' = "idle" /\ i' = 0 /\ modifiedCount' = 0 /\ errorCount' = 0
  /\ requests' = NoRequests(stage)
  /\ log' = Logged(EmptyBag, "info", DetectionMessage(variant, stage))
  /\ hookOutcome' = "none"
  /\ UNCHANGED << inputs, remote, op, failures, results >>

Hooked(operation) ==
  /\ HostBusy /\ op = "none"
  /\ CurrentPoint \in DOMAIN hooks
  /\ hooks[CurrentPoint] = operation

(***************************************************************************)
(* _measureExecutionTime: the wrapper of every registered operation.  The  *)
(* elapsed time of its Finished and Failed lines is left out.  An error is *)
(* its message; "" stands for no error.                                    *)
(***************************************************************************)
NoError == ""

MeasuredStart(bag, operation) == Logged(bag, "info", "Starting: " \o operation)

\* the log after the wrapped operation returned or raised
MeasuredEnd(bag, operation, error) ==
  IF error = NoError
  THEN Logged(bag, "info", "Finished: " \o operation)
  ELSE Logged(bag, "error", "Failed: " \o operation \o " - " \o error)

\* a plausible slip: the catch block logs and does not throw
measuredOutcome_swallows(error) == "resolved"

\* the promise the wrapper returns: `return result` or `throw error`
MeasuredOutcome(error) == IF error = NoError THEN "resolved" ELSE "rejected"

(***************************************************************************)
(* _removeReservedConcurrencyFromSLS: synchronous, one step.               *)
(***************************************************************************)
SLSOperation == "Remove reserved concurrency from Serverless config"

\* _logServerlessConfigResult
SLSResultMessage(result) ==
  IF result.modifiedCount > 0
  THEN "Modified " \o ToString(result.modifiedCount)
       \o " functions to remove reserved concurrency settings"
  ELSE "No functions with reserved concurrency found in Serverless config"

\* the per-function lines of _removeConcurrencyFromFunction (part_000 only)
SLSRemovingMessages(entries) ==
  LET hit == SelectSeq(entries, LAMBDA e : hasReservedConcurrency(e.config))
  IN  [k \in 1..Len(hit) |->
         "Removing reserved concurrency from Serverless config for function: " \o hit[k].name]

RemoveReservedConcurrencyFromSLS ==
  /\ Hooked(OpSLS)
  /\ LET at == RaisesAt(functions)
         error == IF at = 0 THEN NoError ELSE TypeErrorMessage
         seen == IF at = 0 THEN functions ELSE SubSeq(functions, 1, at - 1)
         result == _processServerlessConfigFunctions(seen)
         l1 == MeasuredStart(log, SLSOperation)
         l2 == IF variant = "batched"
               THEN LoggedAll(l1, "info", SLSRemovingMessages(seen))
               ELSE l1
         l3 == IF at = 0 THEN Logged(l2, "info", SLSResultMessage(result)) ELSE l2
     IN  /\ functions' = IF at = 0 THEN StrippedEntries(functions)
                         ELSE StrippedEntriesBefore(functions, at)
         /\ log' = MeasuredEnd(l3, SLSOperation, error)
         /\ results' = IF at = 0 THEN Append(results, ResultRecord(OpSLS, result))
                       ELSE results
         /\ hookOutcome' = MeasuredOutcome(error)
         /\ hostPc' = IF MeasuredOutcome(error) = "resolved" THEN hostPc + 1 ELSE hostPc
  /\ UNCHANGED << inputs, remote, hooks, hostSaw, run, opVars, requests, failures >>

(***************************************************************************)
(* Remote reconciliation: the pieces shared by the bulk and single forms.  *)
(***************************************************************************)
RequestError == "request failed"

AwsErrorMessage(functionName) ==
  "Error removing reserved concurrency from AWS for function " \o functionName
  \o ": " \o RequestError

SkippingMessage(functionName) == "Skipping warmUp function: " \o AwsName(functionName)

\* the state a per-function task reaches when it is started: it resolves the
\* identifier, and either returns at once (skip) or issues the fetch
TaskStarted(functionName) ==
  IF _shouldSkipFunction(AwsName(functionName)) THEN "skipped" ELSE "getting"

\* requests after the tasks of the names in started have run to their first await
WithFetches(req, started) ==
  [id \in DOMAIN req |->
     IF \E n \in started : TaskStarted(n) = "getting" /\ id = AwsName(n)
     THEN [req[id] EXCEPT !.get = @ + 1]
     ELSE req[id]]

\* the skip lines of the names in started
RECURSIVE WithSkips(_, _)
WithSkips(bag, started) ==
  IF started = {} THEN bag
  ELSE LET n == CHOOSE x \in started : TRUE
       IN  WithSkips(IF TaskStarted(n) = "skipped"
                     THEN Logged(bag, "info", SkippingMessage(n)) ELSE bag,
                     started \ {n})

\* getFunctionConfiguration rejects: the task's catch block
GetFails(n) ==
  /\ task[n] = "getting"
  /\ failures < MaxFailures
  /\ failures' = failures + 1
  /\ task' = [task EXCEPT ![n] = "errored"]
  /\ log' = Logged(log, "error", AwsErrorMessage(n))
  /\ UNCHANGED << inputs, functions, remote, hooks, hostPc, hostSaw, run, op, opPc, i,
                  modifiedCount, errorCount, requests, results, hookOutcome >>

\* getFunctionConfiguration resolves: _checkAndRemoveReservedConcurrency goes on
GetReturns(n) ==
  /\ task[n] = "getting"
  /\ LET config == remote[AwsName(n)]
     IN  IF hasReservedConcurrentExecutions(config)
         THEN /\ log' = Logged(log, "info",
                   "Removing reserved concurrency from AWS for function: " \o AwsName(n))
              /\ requests' = [requests EXCEPT ![AwsName(n)].del = @ + 1]
              /\ task' = [task EXCEPT ![n] = "deleting"]
         ELSE /\ task' = [task EXCEPT ![n] = "clean"]
              /\ UNCHANGED << log, requests >>
  /\ UNCHANGED << inputs, functions, remote, hooks, hostPc, hostSaw, run, op, opPc, i,
                  modifiedCount, errorCount, failures, results, hookOutcome >>

\* deleteFunctionConcurrency rejects: the task's catch block
DeleteFails(n) ==
  /\ task[n] = "deleting"
  /\ failures < MaxFailures
  /\ failures' = failures + 1
  /\ task' = [task EXCEPT ![n] = "errored"]
  /\ log' = Logged(log, "error", AwsErrorMessage(n))
  /\ UNCHANGED << inputs, functions, remote, hooks, hostPc, hostSaw, run, op, opPc, i,
                  modifiedCount, errorCount, requests, results, hookOutcome >>

\* deleteFunctionConcurrency resolves: the remote setting is gone
DeleteSucceeds(n) ==
  /\ task[n] = "deleting"
  /\ remote' = [remote EXCEPT ![AwsName(n)] =
                  [key \in DOMAIN @ \ {"ReservedConcurrentExecutions"} |-> @[key]]]
  /\ task' = [task EXCEPT ![n] = "modified"]
  /\ log' = IF variant = "batched"
            THEN Logged(log, "info",
                   "Successfully removed reserved concurrency from AWS for function: "
                   \o AwsName(n))
            ELSE log
  /\ UNCHANGED << inputs, functions, hooks, hostPc, hostSaw, run, op, opPc, i,
                  modifiedCount, errorCount, requests, failures, results, hookOutcome >>

\* _logAwsResult (part_000) and the tail of the loop's wrapper (index.ts)
WithAwsResult(bag, result) ==
  LET l1 == IF result.modifiedCount > 0
            THEN Logged(bag, "info",
                   "Successfully removed reserved concurrency from AWS for "
                   \o ToString(result.modifiedCount) \o " functions")
            ELSE IF result.errorCount = 0
            THEN Logged(bag, "info", "No functions with reserved concurrency found in AWS")
            ELSE bag
  IN  IF result.errorCount > 0
      THEN Logged(l1, "error",
             "Failed to remove reserved concurrency for "
             \o ToString(result.errorCount) \o " functions")
      ELSE l1

(***************************************************************************)
(* Bulk form, part_000: _removeReservedConcurrencyFromAws and              *)
(* _processAwsFunctionsInBatches.                                          *)
(***************************************************************************)
AwsOperation == "Remove reserved concurrency from AWS for all functions"

\* a plausible slip: the slice runs to the end of the list
BatchIndices_unbounded(from, len) == (from + 1)..len

\* functionEntries.slice(i, i + batchSize), as 1-based indices
BatchIndices(from, len) == (from + 1)..Min(from + AWS_CONCURRENCY_BATCH_SIZE, len)

BatchNames == {functions[k].name : k \in BatchIndices(i, Len(functions))}

InvokeAws ==
  /\ Hooked(OpAws) /\ variant = "batched"
  /\ op' = "bulk" /\ opPc' = "loop" /\ i' = 0
  /\ modifiedCount' = 0 /\ errorCount' = 0
  /\ task' = IdleTasks
  /\ log' = MeasuredStart(log, AwsOperation)
  /\ hookOutcome' = "pending"
  /\ UNCHANGED << inputs, functions, remote, hooks, hostPc, hostSaw, run, requests,
                  failures, results >>

\* one iteration of the for loop up to its await: batch.map starts every task
StartBatch ==
  /\ op = "bulk" /\ opPc = "loop"
  /\ i < Len(functions)
  /\ task' = [n \in AllNames |-> IF n \in BatchNames THEN TaskStarted(n) ELSE task[n]]
  /\ requests' = WithFetches(requests, BatchNames)
  /\ log' = WithSkips(log, BatchNames)
  /\ opPc' = "await"
  /\ UNCHANGED << inputs, functions, remote, hooks, hostPc, hostSaw, run, op, i,
                  modifiedCount, errorCount, failures, results, hookOutcome >>

\* a plausible slip: the loop goes on as soon as one task of the batch settled
BatchAllSettled_any == \E n \in BatchNames : task[n] \in Settled

\* a plausible slip: a task that lets its error out; Promise.all then never
\* yields the results of the batch
BatchAllSettled_noneErrored == \A n \in BatchNames : task[n] \in Settled \ {"errored"}

\* Promise.all: every task of the batch has settled
BatchAllSettled == \A n \in BatchNames : task[n] \in Settled

\* Promise.all resolves: batchResults.forEach sums, the loop steps
BatchSettled ==
  /\ op = "bulk" /\ opPc = "await"
  /\ BatchAllSettled
  /\ modifiedCount' = modifiedCount
       + Cardinality({n \in BatchNames : TaskResult(task[n]).modifiedCount = 1})
  /\ errorCount' = errorCount
       + Cardinality({n \in BatchNames : TaskResult(task[n]).errorCount = 1})
  /\ i' = i + AWS_CONCURRENCY_BATCH_SIZE
  /\ opPc' = "loop"
  /\ UNCHANGED << inputs, functions, remote, hooks, hostPc, hostSaw, run, op, task,
                  requests, failures, log, results, hookOutcome >>

\* the loop is over: _logAwsResult, the wrapper's Finished line, the hook resolves
FinishAws ==
  /\ op = "bulk" /\ opPc = "loop"
  /\ i >= Len(functions)
  /\ LET result == [modifiedCount |-> modifiedCount, errorCount |-> errorCount]
     IN  /\ log' = MeasuredEnd(WithAwsResult(log, result), AwsOperation, NoError)
         /\ results' = Append(results, ResultRecord(OpAws, result))
  /\ op' = "none" /\ opPc' = "idle"
  /\ hookOutcome' = "resolved"
  /\ hostPc' = hostPc + 1
  /\ UNCHANGED << inputs, functions, remote, hooks, hostSaw, run, i, task,
                  modifiedCount, errorCount, requests, failures >>

(***************************************************************************)
(* Bulk form, index.ts: _removeReservedConcurrencyFromAws, one at a time.  *)
(***************************************************************************)
AwsOperationLegacy == "Remove reserved concurrency from AWS"

InvokeAwsLegacy ==
  /\ Hooked(OpAws) /\ variant = "legacy"
  /\ op' = "bulkLegacy" /\ opPc' = "loop" /\ i' = 0
  /\ modifiedCount' = 0 /\ errorCount' = 0
  /\ task' = IdleTasks
  /\ log' = MeasuredStart(log, AwsOperationLegacy)
  /\ hookOutcome' = "pending"
  /\ UNCHANGED << inputs, functions, remote, hooks, hostPc, hostSaw, run, requests,
                  failures, results >>

\* the loop body up to `continue` or up to its first await
LegacyIterate ==
  /\ op = "bulkLegacy" /\ opPc = "loop"
  /\ i < Len(functions)
  /\ LET n == functions[i + 1].name
     IN  /\ task' = [task EXCEPT ![n] = TaskStarted(n)]
         /\ requests' = WithFetches(requests, {n})
         /\ log' = WithSkips(log, {n})
         /\ IF TaskStarted(n) = "skipped"
            THEN i' = i + 1 /\ opPc' = "loop"
            ELSE i' = i /\ opPc' = "await"
  /\ UNCHANGED << inputs, functions, remote, hooks, hostPc, hostSaw, run, op,
                  modifiedCount, errorCount, failures, results, hookOutcome >>

\* a plausible slip: modifiedCount++ placed after the if, not inside it
LegacyTaskResult_fetchedCountsModified(status) ==
  [modifiedCount |-> IF status \in {"modified", "clean"} THEN 1 ELSE 0,
   errorCount |-> IF status = "errored" THEN 1 ELSE 0]

\* what one pass of the loop body adds to the counters
LegacyTaskResult(status) ==
  [modifiedCount |-> IF status = "modified" THEN 1 ELSE 0,
   errorCount |-> IF status = "errored" THEN 1 ELSE 0]

\* the rest of the loop body: modifiedCount++ or errorCount++
LegacySettled ==
  /\ op = "bulkLegacy" /\ opPc = "await"
  /\ task[functions[i + 1].name] \in Settled
  /\ modifiedCount' =
       modifiedCount + LegacyTaskResult(task[functions[i + 1].name]).modifiedCount
  /\ errorCount' = errorCount + LegacyTaskResult(task[functions[i + 1].name]).errorCount
  /\ i' = i + 1
  /\ opPc' = "loop"
  /\ UNCHANGED << inputs, functions, remote, hooks, hostPc, hostSaw, run, op, task,
                  requests, failures, log, results, hookOutcome >>

FinishAwsLegacy ==
  /\ op = "bulkLegacy" /\ opPc = "loop"
  /\ i >= Len(functions)
  /\ LET result == [modifiedCount |-> modifiedCount, errorCount |-> errorCount]
     IN  /\ log' = MeasuredEnd(WithAwsResult(log, result), AwsOperationLegacy, NoError)
         /\ results' = Append(results, ResultRecord(OpAws, result))
  /\ op' = "none" /\ opPc' = "idle"
  /\ hookOutcome' = "resolved"
  /\ hostPc' = hostPc + 1
  /\ UNCHANGED << inputs, functions, remote, hooks, hostSaw, run, i, task,
                  modifiedCount, errorCount, requests, failures >>

(***************************************************************************)
(* Single form, part_000: _removeReservedConcurrencyFromAwsForFunction.    *)
(***************************************************************************)
SingleOperation == "Remove reserved concurrency from AWS for single function"

\* a plausible slip: only the absence of the option is tested
validateFunctionName_presentOnly == HasFunctionOption

\* _validateFunctionName: !functionName is true for undefined and for ""
_validateFunctionName ==
  HasFunctionOption /\ options.function # ""

\* no target name: one error line, no remote call, the hook resolves
SingleNoFunction ==
  /\ Hooked(OpAwsForFunction)
  /\ ~_validateFunctionName
  /\ log' = MeasuredEnd(Logged(MeasuredStart(log, SingleOperation),
                                "error", "No function specified"),
                         SingleOperation, NoError)
  /\ task' = IdleTasks
  /\ hookOutcome' = "resolved"
  /\ hostPc' = hostPc + 1
  /\ UNCHANGED << inputs, functions, remote, hooks, hostSaw, run, op, opPc, i,
                  modifiedCount, errorCount, requests, failures, results >>

\* _processSingleAwsFunction up to its return (skip) or its first await
InvokeSingle ==
  /\ Hooked(OpAwsForFunction)
  /\ _validateFunctionName
  /\ op' = "single" /\ opPc' = "await" /\ i' = 0
  /\ modifiedCount' = 0 /\ errorCount' = 0
  /\ task' = [IdleTasks EXCEPT ![options.function] = TaskStarted(options.function)]
  /\ requests' = WithFetches(requests, {options.function})
  /\ log' = WithSkips(MeasuredStart(log, SingleOperation),
                      {options.function})
  /\ hookOutcome' = "pending"
  /\ UNCHANGED << inputs, functions, remote, hooks, hostPc, hostSaw, run, failures,
                  results >>

\* a plausible slip: the catch block of the single form returns an empty result
SingleTaskResult_errorsUncounted(status) ==
  [modifiedCount |-> IF status = "modified" THEN 1 ELSE 0, errorCount |-> 0]

\* the ProcessingResult _processSingleAwsFunction returns
SingleTaskResult(status) ==
  [modifiedCount |-> IF status = "modified" THEN 1 ELSE 0,
   errorCount |-> IF status = "errored" THEN 1 ELSE 0]

\* _logSingleFunctionResult
WithSingleResult(bag, functionName, result) ==
  IF result.modifiedCount > 0
  THEN Logged(bag, "info",
         "Successfully removed reserved concurrency from AWS for function: "
         \o AwsName(functionName))
  ELSE IF result.errorCount = 0
  THEN Logged(bag, "info",
         "No reserved concurrency found for function: " \o AwsName(functionName))
  ELSE bag

FinishSingle ==
  /\ op = "single" /\ opPc = "await"
  /\ task[options.function] \in Settled
  /\ LET result == SingleTaskResult(task[options.function])
     IN  /\ modifiedCount' = result.modifiedCount
         /\ errorCount' = result.errorCount
         /\ log' = MeasuredEnd(WithSingleResult(log, options.function, result),
                               SingleOperation, NoError)
         /\ results' = Append(results, ResultRecord(OpAwsForFunction, result))
  /\ op' = "none" /\ opPc' = "idle"
  /\ hookOutcome' = "resolved"
  /\ hostPc' = hostPc + 1
  /\ UNCHANGED << inputs, functions, remote, hooks, hostSaw, run, i, task, requests,
                  failures >>

Next ==
  \/ HostCoreStep
  \/ HostFireUnhooked
  \/ HostRunAgain
  \/ RemoveReservedConcurrencyFromSLS
  \/ InvokeAws
  \/ StartBatch
  \/ BatchSettled
  \/ FinishAws
  \/ InvokeAwsLegacy
  \/ LegacyIterate
  \/ LegacySettled
  \/ FinishAwsLegacy
  \/ SingleNoFunction
  \/ InvokeSingle
  \/ FinishSingle
  \/ \E n \in AllNames : GetFails(n)
  \/ \E n \in AllNames : GetReturns(n)
  \/ \E n \in AllNames : DeleteFails(n)
  \/ \E n \in AllNames : DeleteSucceeds(n)

Spec == Init /\ [][Next]_vars
SpecBulk == InitBulk /\ [][Next]_vars
SpecStage == InitStage /\ [][Next]_vars
SpecFault == InitFault /\ [][Next]_vars
SpecOne == InitOne /\ [][Next]_vars

\* every remote request settles: its response, or its rejection, arrives
Responses ==
  \E n \in AllNames : GetFails(n) \/ GetReturns(n) \/ DeleteFails(n) \/ DeleteSucceeds(n)

\* the runtime runs a continuation that is ready: the loops of the bulk forms go on
Continuations ==
  \/ StartBatch \/ BatchSettled \/ FinishAws
  \/ LegacyIterate \/ LegacySettled \/ FinishAwsLegacy
  \/ FinishSingle

Fairness == WF_vars(Responses) /\ WF_vars(Continuations)

SpecLive == InitLive /\ [][Next]_vars /\ Fairness

(***************************************************************************)
(* Vocabulary of the properties, stated without the program's operators.   *)
(***************************************************************************)
\* two characters that are the same letter, whatever their case
SameLetter(c, d) ==
  \/ c = d
  \/ \E k \in 1..Len(UpperChars) :
       {c, d} = {CharAt(UpperChars, k), CharAt(LowerChars, k)}

SameIgnoringCase(s, t) ==
  /\ Len(s) = Len(t)
  /\ \A k \in 1..Len(s) : SameLetter(CharAt(s, k), CharAt(t, k))

\* development-like, as the specification words it
DevelopmentLike(s) ==
  \/ \E t \in {"dev", "development", "feature"} : SameIgnoringCase(s, t)
  \/ /\ Len(s) >= Len("feature-")
     /\ SameIgnoringCase(SubSeq(s, 1, Len("feature-")), "feature-")

\* the identifier holds the warm-up marker
HoldsWarmUpMarker(id) ==
  \E k \in 1..Len(id) : k + 5 <= Len(id) /\ SubSeq(id, k, k + 5) = "warmUp"

Identifier(n) == ServiceName \o "-" \o stage \o "-" \o n

RequestsFor(n) == requests[Identifier(n)].get + requests[Identifier(n)].del
SomeRequestIssued == \E n \in AllNames : RequestsFor(n) > 0

DescriptorNames == {functions[k].name : k \in 1..Len(functions)}
CarriesField(entries) ==
  {k \in 1..Len(entries) : "reservedConcurrency" \in DOMAIN entries[k].config}

RemoteHasSetting(r, n) == "ReservedConcurrentExecutions" \in DOMAIN r[Identifier(n)]

IsReconciliation(r) == r.op \in {OpAws, OpAwsForFunction}
LastResult == results[Len(results)]

\* a bulk reconciliation of the current run has just produced its result
BulkDone ==
  /\ op = "none"
  /\ Len(results) > 0
  /\ LastResult.op = OpAws
  /\ LastResult.run = run

TasksIn(status) == {n \in DescriptorNames : task[n] = status}

(***************************************************************************)
(* C1: when the stage is not development-like the hooks mapping is empty,  *)
(* and whatever extension points the host fires no remote request is       *)
(* issued, no function definition of the descriptor is modified and no     *)
(* remote configuration changes.                                           *)
(***************************************************************************)
C1_NonDevelopmentStageIsNoOp ==
  ~DevelopmentLike(stage) =>
    /\ hooks = NoHooks
    /\ ~SomeRequestIssued
    /\ functions = yml
    /\ remote = remote0
    /\ results = <<>>

C1_Witness ==
  /\ ~DevelopmentLike(stage)
  /\ stage = "features"
  /\ ~HostBusy
  /\ run = MaxRuns
  /\ CarriesField(yml) # {}

(***************************************************************************)
(* C2: in a development-like stage (dev and development included) the      *)
(* stripping is bound to before-points only and the reconciliation to      *)
(* after-points only; (a) once a stripping hook has completed, the host's  *)
(* packaging and deploy steps find no definition carrying                  *)
(* reservedConcurrency; (b) no remote request is issued before the host's  *)
(* deploy step has been performed.                                         *)
(***************************************************************************)
C2_StripBeforeReconcileAfter ==
  /\ \A e \in DOMAIN hooks :
       /\ hooks[e] = OpSLS => SubSeq(e, 1, 7) = "before:"
       /\ hooks[e] # OpSLS => SubSeq(e, 1, 6) = "after:"
  /\ DevelopmentLike(stage) =>
       /\ \E e \in DOMAIN hooks : hooks[e] = OpSLS
       /\ \E e \in DOMAIN hooks : hooks[e] # OpSLS
  /\ \A k \in 1..Len(hostSaw) : hostSaw[k].stripped => hostSaw[k].reserved = {}
  /\ (SomeRequestIssued \/ op # "none") => \E k \in 1..Len(hostSaw) : hostSaw[k].step = "deploy"

C2_Witness ==
  /\ stage = "Development"
  /\ CarriesField(yml) # {}
  /\ \E k \in 1..Len(hostSaw) :
       hostSaw[k].step = "package" /\ hostSaw[k].stripped /\ hostSaw[k].reserved = {}
  /\ \E k \in 1..Len(hostSaw) :
       hostSaw[k].step = "deploy" /\ hostSaw[k].stripped /\ hostSaw[k].reserved = {}
  /\ SomeRequestIssued

(***************************************************************************)
(* C3: after a single-function deploy only the single-function             *)
(* reconciliation runs: remote requests are issued for the identifier of   *)
(* options.function and for no other function; the bulk reconciliation     *)
(* runs only after a full-service deploy.  Stated for a target that is a   *)
(* function of the descriptor and is not a warm-up function.               *)
(***************************************************************************)
C3_SingleDeployTouchesOnlyItsTarget ==
  (/\ cmd = "deploy function"
   /\ HasFunctionOption
   /\ options.function \in DescriptorNames
   /\ ~HoldsWarmUpMarker(Identifier(options.function))) =>
    \A n \in AllNames : RequestsFor(n) > 0 => n = options.function

(***************************************************************************)
(* C4: stage classification: for every stage string, both implementations  *)
(* of _isDevelopmentStage answer true exactly when the lower-cased stage   *)
(* is dev, development or feature, or starts with feature-; the hooks      *)
(* mapping built from the answer is non-empty exactly then.                *)
(***************************************************************************)
C4_StageClassification ==
  /\ _isDevelopmentStage(stage) = DevelopmentLike(stage)
  /\ _isDevelopmentStageLegacy(stage) = DevelopmentLike(stage)
  /\ (hooks # NoHooks) = DevelopmentLike(stage)
  /\ stage \in {"production", "features", "dev-1", "featurex", "xdev", ""} => hooks = NoHooks
  /\ stage \in {"Feature-XYZ", "DEV", "Development", "feature-", "FEATURE"} => hooks # NoHooks

C4_Witness ==
  /\ stage = "Feature-XYZ"
  /\ hooks # NoHooks
  /\ \E k \in 1..Len(results) : results[k].op = OpSLS

(***************************************************************************)
(* C5: a descriptor-stripping pass removes reservedConcurrency from every  *)
(* definition that carries it (a value of 0 is carried), and reports as    *)
(* modifiedCount exactly the number of definitions that carried it before  *)
(* the pass.                                                               *)
(***************************************************************************)
C5_StripRemovesEveryCarriedField ==
  [][ (Len(results') = Len(results) + 1 /\ results'[Len(results')].op = OpSLS) =>
        /\ results'[Len(results')].modifiedCount = Cardinality(CarriesField(functions))
        /\ results'[Len(results')].errorCount = 0
        /\ CarriesField(functions') = {}
        /\ Len(functions') = Len(functions)
    ]_vars

C5_Witness ==
  /\ Len(yml) = 3
  /\ yml[1].config = [handler |-> "h", reservedConcurrency |-> 5,
                      concurrency |-> [provisioned |-> 1]]
  /\ yml[2].config = PlainDefinition
  /\ yml[3].config = [handler |-> "h", reservedConcurrency |-> 0]
  /\ Len(results) = 1
  /\ results[1].op = OpSLS
  /\ results[1].modifiedCount = 2
  /\ CarriesField(functions) = {}

(***************************************************************************)
(* C6: the batched bulk reconciliation works through the list in           *)
(* consecutive batches of at most 5, in list order, with a barrier between *)
(* batches: while a batch is awaited every function before it has settled, *)
(* and no function after it has been started or has had a request issued;  *)
(* at most 5 functions are in flight.  Seven functions go as 5 then 2.     *)
(***************************************************************************)
C6_BatchesOfFiveWithBarrier ==
  op = "bulk" =>
    LET len == Len(functions)
        upTo == IF opPc = "await" THEN i + 5 ELSE i
        started == IF upTo < len THEN upTo ELSE len
    IN  /\ i % 5 = 0
        /\ \A k \in 1..len :
             /\ k <= i => task[functions[k].name] \in Settled
             /\ (i < k /\ k <= started) => task[functions[k].name] # "idle"
             /\ k > started =>
                  task[functions[k].name] = "idle" /\ RequestsFor(functions[k].name) = 0
        /\ Cardinality({n \in AllNames : task[n] \in {"getting", "deleting"}}) <= 5
        /\ (len = 7 /\ opPc = "await") =>
             \/ i = 0 /\ {k \in 1..len : task[functions[k].name] # "idle"} = 1..5
             \/ i = 5 /\ {k \in 1..len : task[functions[k].name] # "idle"} = 1..7

C6_Witness ==
  /\ op = "bulk" /\ opPc = "await"
  /\ Len(functions) = 7
  /\ i = 5
  /\ task[functions[1].name] = "errored"
  /\ task[functions[6].name] = "getting"
  /\ task[functions[7].name] = "deleting"

(***************************************************************************)
(* C7: per-function failures are isolated in the bulk forms: when the bulk *)
(* run ends every function of the descriptor has settled, every function   *)
(* that is not skipped was fetched exactly once, errorCount is the number  *)
(* of functions whose processing failed, and the hook has resolved.        *)
(***************************************************************************)
C7_FailuresAreIsolated ==
  BulkDone =>
    /\ \A n \in DescriptorNames : task[n] \in Settled
    /\ \A n \in DescriptorNames :
         ~HoldsWarmUpMarker(Identifier(n)) => requests[Identifier(n)].get = 1
    /\ LastResult.errorCount = Cardinality(TasksIn("errored"))
    /\ run = 1 => LastResult.errorCount = failures
    /\ hookOutcome = "resolved"

C7_Witness ==
  /\ BulkDone
  /\ Len(functions) = 7
  /\ task[functions[3].name] = "errored"
  /\ task[functions[5].name] = "modified"
  /\ task[functions[7].name] = "modified"
  /\ LastResult.errorCount = 1
  /\ LastResult.modifiedCount = 2

(***************************************************************************)
(* C8: a logical name whose identifier holds "warmUp" never causes a       *)
(* remote request, in the bulk forms and in the single form, whatever its  *)
(* remote setting; it is counted neither as modified nor as errored, and   *)
(* its remote configuration stays as it was.                               *)
(***************************************************************************)
C8_WarmUpNeverTouched ==
  /\ \A n \in AllNames :
       HoldsWarmUpMarker(Identifier(n)) =>
         /\ RequestsFor(n) = 0
         /\ task[n] \in {"idle", "skipped"}
         /\ remote[Identifier(n)] = remote0[Identifier(n)]
  /\ BulkDone =>
       LastResult.modifiedCount + LastResult.errorCount
         <= Cardinality({n \in DescriptorNames : ~HoldsWarmUpMarker(Identifier(n))})
  /\ \A k \in 1..Len(results) :
       (/\ results[k].op = OpAwsForFunction
        /\ HoldsWarmUpMarker(Identifier(options.function))) =>
         results[k].modifiedCount = 0 /\ results[k].errorCount = 0

C8_Witness ==
  /\ BulkDone
  /\ NamePool[2] \in DescriptorNames
  /\ HoldsWarmUpMarker(Identifier(NamePool[2]))
  /\ RemoteHasSetting(remote, NamePool[2])
  /\ task[NamePool[2]] = "skipped"
  /\ task[NamePool[1]] = "modified"

C10_CountsCoverEveryFunction ==
  BulkDone =>
    LastResult.modifiedCount + LastResult.errorCount
      + Cardinality({n \in DescriptorNames : HoldsWarmUpMarker(Identifier(n))})
    = Len(functions)

(***************************************************************************)
(* C10, amended: for every bulk run, modified + errored + skipped +        *)
(* already-clean is the number of functions considered, already-clean      *)
(* counting the functions fetched and found without the setting.           *)
(***************************************************************************)
C10_CountsWithCleanCoverEveryFunction ==
  BulkDone =>
    LastResult.modifiedCount + LastResult.errorCount
      + Cardinality({n \in DescriptorNames : HoldsWarmUpMarker(Identifier(n))})
      + Cardinality(TasksIn("clean"))
    = Len(functions)

C10_Witness ==
  /\ BulkDone
  /\ LastResult.modifiedCount = 1
  /\ LastResult.errorCount = 1
  /\ Cardinality(TasksIn("skipped")) = 1
  /\ Cardinality(TasksIn("clean")) >= 4

\* the number of lines of a level in a log
LinesOfLevel(bag, level) ==
  BagCardinality([m \in {x \in DOMAIN bag : x.level = level} |-> bag[m]])

\* the host is about to fire the point after a single-function deploy, on
\* which the single-function reconciliation is registered
AboutToReconcileOne ==
  /\ op = "none"
  /\ hostPc <= Len(Lifecycle(cmd))
  /\ hookOutcome # "rejected"
  /\ Lifecycle(cmd)[hostPc] = "after:deploy:function:deploy"
  /\ "after:deploy:function:deploy" \in DOMAIN hooks
  /\ hooks["after:deploy:function:deploy"] = OpAwsForFunction

NoTargetGiven == ~HasFunctionOption \/ options.function = ""

(***************************************************************************)
(* C11: the single-function reconciliation invoked with no target name     *)
(* (options.function absent or empty) issues no remote request, changes no *)
(* remote configuration, logs exactly one error line, "No function         *)
(* specified", and the hook resolves: the host goes on to its next point.  *)
(***************************************************************************)
C11_NoTargetIsLoggedNotRaised ==
  [][ (AboutToReconcileOne /\ NoTargetGiven) =>
        /\ requests' = requests
        /\ remote' = remote
        /\ LogCount(log', "error", "No function specified")
             = LogCount(log, "error", "No function specified") + 1
        /\ LinesOfLevel(log', "error") = LinesOfLevel(log, "error") + 1
        /\ hookOutcome' = "resolved"
        /\ op' = "none"
        /\ hostPc' = hostPc + 1
    ]_vars

C11_Witness ==
  /\ cmd = "deploy function"
  /\ options = [function |-> ""]
  /\ hookOutcome = "resolved"
  /\ hostPc > Len(Lifecycle(cmd))
  /\ LogCount(log, "error", "No function specified") = 1
  /\ LinesOfLevel(log, "error") = 1
  /\ ~SomeRequestIssued

\* the lines that report the outcome of a run as a whole, on the most lenient
\* reading: any line that tells how many functions, or that the one function,
\* was modified, or failed, or that there was nothing to remove
SummaryLines(r) ==
  IF r.op = OpAws
  THEN { Msg("info", "Successfully removed reserved concurrency from AWS for "
                       \o ToString(r.modifiedCount) \o " functions"),
         Msg("info", "No functions with reserved concurrency found in AWS"),
         Msg("error", "Failed to remove reserved concurrency for "
                        \o ToString(r.errorCount) \o " functions") }
  ELSE { Msg("info", "Successfully removed reserved concurrency from AWS for function: "
                       \o Identifier(options.function)),
         Msg("info", "No reserved concurrency found for function: "
                       \o Identifier(options.function)) }

(***************************************************************************)
(* C12, as claimed: every reconciliation that has completed in the current *)
(* run, bulk or single-function with a name supplied, has emitted a line   *)
(* that reports the outcome of the run, whatever the outcome: nothing      *)
(* affected, some modified, every processed function errored.              *)
(***************************************************************************)
C12_EveryRunLogsASummary ==
  \A k \in 1..Len(results) :
    (results[k].run = run /\ IsReconciliation(results[k])) =>
      \E m \in SummaryLines(results[k]) : CopiesIn(m, log) > 0

\* the number of lines of a log that begin with a prefix
LinesStarting(bag, prefix) ==
  BagCardinality([m \in {x \in DOMAIN bag : /\ Len(x.message) >= Len(prefix)
                                            /\ SubSeq(x.message, 1, Len(prefix)) = prefix}
                  |-> bag[m]])

\* the hook invocations of the current run that have come to their end
HooksCompleted ==
  Cardinality({k \in 1..(hostPc - 1) : Lifecycle(cmd)[k] \in DOMAIN hooks})

OperationNames == {SLSOperation, AwsOperation, AwsOperationLegacy, SingleOperation}

(***************************************************************************)
(* C13: every invocation of a registered hook logs one Starting line       *)
(* before the operation begins and, when it ends, exactly one of a         *)
(* Finished line (the hook resolves) or a Failed line carrying the error's *)
(* message (the hook rejects: the error is raised to the host, which goes  *)
(* no further); an error is never swallowed and no invocation logs both.   *)
(***************************************************************************)
C13_StartingThenFinishedOrFailed ==
  LET failed == IF hookOutcome = "rejected" THEN 1 ELSE 0
      running == IF op # "none" THEN 1 ELSE 0
  IN  /\ LinesStarting(log, "Starting: ") = HooksCompleted + running + failed
      /\ LinesStarting(log, "Finished: ") = HooksCompleted
      /\ LinesStarting(log, "Failed: ") = failed
      /\ \A o \in OperationNames :
           LinesStarting(log, "Starting: " \o o)
             >= LinesStarting(log, "Finished: " \o o) + LinesStarting(log, "Failed: " \o o)
      /\ op # "none" => hookOutcome = "pending"
      /\ hookOutcome = "resolved" => LinesStarting(log, "Finished: ") >= 1
      /\ hookOutcome = "rejected" =>
           /\ op = "none"
           /\ \E o \in OperationNames :
                LogCount(log, "error", "Failed: " \o o \o " - " \o TypeErrorMessage) = 1

C13_Witness ==
  /\ variant = "batched"
  /\ cmd = "deploy"
  /\ Len(yml) = 3
  /\ CarriesField(yml) = {1, 3}
  /\ yml[2].config = NullDefinition
  /\ hookOutcome = "rejected"
  /\ CarriesField(functions) = {3}
  /\ LinesStarting(log, "Starting: ") = 1
  /\ LinesStarting(log, "Failed: ") = 1
  /\ LinesStarting(log, "Finished: ") = 0
  /\ run = 2

(***************************************************************************)
(* C14: when a bulk reconciliation ends with errorCount = 0 (the remote    *)
(* delete removing the setting, and no other party changing remote state), *)
(* no function of the descriptor other than the warm-up functions that     *)
(* were skipped has a reserved-concurrency setting, of whatever value, in  *)
(* its remote configuration.                                               *)
(***************************************************************************)
C14_CleanRunLeavesNoSetting ==
  (BulkDone /\ LastResult.errorCount = 0) =>
    \A n \in DescriptorNames :
      ~HoldsWarmUpMarker(Identifier(n)) => ~RemoteHasSetting(remote, n)

C14_Witness ==
  /\ BulkDone
  /\ run = 1
  /\ variant = "batched"
  /\ Len(functions) = 7
  /\ LastResult.errorCount = 0
  /\ LastResult.modifiedCount = 3
  /\ \A n \in {NamePool[1], NamePool[5], NamePool[7]} :
       RemoteHasSetting(remote0, n) /\ ~RemoteHasSetting(remote, n)
  /\ RemoteHasSetting(remote, NamePool[2])

\* what the requests of the current run and the remote state tell of a function
Fetched(n) == requests[Identifier(n)].get = 1
DeleteIssued(n) == requests[Identifier(n)].del = 1
DeleteSucceededFor(n) == DeleteIssued(n) /\ ~RemoteHasSetting(remote, n)
KeepsSettingThoughFetched(n) == Fetched(n) /\ RemoteHasSetting(remote, n)

\* the step that ends a reconciliation with a result
ReconciliationEnds ==
  /\ Len(results') = Len(results) + 1
  /\ IsReconciliation(results'[Len(results')])

(***************************************************************************)
(* C15: the protocol of one function within one run.  At most one fetch    *)
(* and at most one delete are issued for its identifier (no retries); the  *)
(* delete is issued only when the fetch of the same identifier returns a   *)
(* configuration that carries the setting; a remote setting disappears     *)
(* only by a delete that was issued; and in the result the function is     *)
(* counted as modified exactly when its delete succeeded, a failed fetch   *)
(* or a failed delete counting it as errored and not as modified.          *)
(***************************************************************************)
C15_OneFetchOneDeleteNoRetry ==
  [][ /\ \A n \in AllNames :
           /\ requests'[Identifier(n)].get <= 1
           /\ requests'[Identifier(n)].del <= 1
           /\ requests'[Identifier(n)].del > requests[Identifier(n)].del =>
                /\ task[n] = "getting"
                /\ Fetched(n)
                /\ RemoteHasSetting(remote, n)
           /\ (RemoteHasSetting(remote, n) /\ ~RemoteHasSetting(remote', n)) =>
                DeleteIssued(n)
      /\ ReconciliationEnds =>
           LET result == results'[Len(results')]
           IN  /\ result.modifiedCount
                    = Cardinality({n \in AllNames : DeleteSucceededFor(n)})
               /\ result.errorCount
                    >= Cardinality({n \in AllNames : KeepsSettingThoughFetched(n)})
               /\ result.modifiedCount + result.errorCount
                    <= Cardinality({n \in AllNames : Fetched(n)})
               /\ run = 1 => result.errorCount = failures
    ]_vars

C15_Witness ==
  /\ BulkDone
  /\ Len(functions) = 7
  /\ LastResult.modifiedCount = 1
  /\ LastResult.errorCount = 1
  /\ DeleteSucceededFor(NamePool[7])
  /\ DeleteIssued(NamePool[1]) /\ RemoteHasSetting(remote, NamePool[1])
  /\ Fetched(NamePool[3]) /\ ~DeleteIssued(NamePool[3])

\* the functions of the first k entries of the list whose task ended in status
EndedIn(status, k) ==
  {j \in 1..Len(functions) : j <= k /\ task[functions[j].name] = status}

\* the remote state that follows from the state before the run and from the
\* outcome of each function alone: the setting is gone where the delete succeeded
RemoteAfter(before, deleted) ==
  [id \in DOMAIN before |->
     IF \E n \in deleted : id = Identifier(n)
     THEN [key \in DOMAIN before[id] \ {"ReservedConcurrentExecutions"} |-> before[id][key]]
     ELSE before[id]]

(***************************************************************************)
(* C16: in the batched bulk reconciliation the aggregate is a function of  *)
(* the list and of the outcome of each function, not of the order in which *)
(* the tasks of a batch complete: while a batch is awaited the counters    *)
(* hold the sums over the batches before it, whichever tasks of the batch  *)
(* have settled; between batches and at the end modifiedCount and          *)
(* errorCount are the numbers of functions whose delete succeeded and      *)
(* whose processing failed; and the final remote state is the state before *)
(* the run without the settings whose delete succeeded.                    *)
(***************************************************************************)
C16_AggregateIndependentOfInterleaving ==
  /\ op = "bulk" =>
       /\ modifiedCount = Cardinality(EndedIn("modified", i))
       /\ errorCount = Cardinality(EndedIn("errored", i))
  /\ (BulkDone /\ variant = "batched") =>
       /\ LastResult.modifiedCount = Cardinality(EndedIn("modified", Len(functions)))
       /\ LastResult.errorCount = Cardinality(EndedIn("errored", Len(functions)))
       /\ run = 1 => remote = RemoteAfter(remote0, TasksIn("modified"))

C16_Witness ==
  /\ op = "bulk" /\ opPc = "await"
  /\ i = 5
  /\ Len(functions) = 7
  /\ task[NamePool[1]] = "errored"
  /\ task[NamePool[5]] = "modified"
  /\ task[NamePool[6]] = "getting"
  /\ task[NamePool[7]] = "modified"
  /\ modifiedCount = 1
  /\ errorCount = 1

BulkRunning == op \in {"bulk", "bulkLegacy"}

(***************************************************************************)
(* C17: a bulk reconciliation that has started runs to its end: provided   *)
(* every remote request settles, the run ends with a result and every      *)
(* function of the list has been processed (modified, errored, clean or    *)
(* skipped), however many functions fail.                                  *)
(***************************************************************************)
C17_BulkRunsToCompletion ==
  BulkRunning ~> (BulkDone /\ \A n \in DescriptorNames : task[n] \in Settled)

C17_Witness ==
  /\ BulkDone
  /\ variant = "batched"
  /\ Len(functions) = 7
  /\ \A n \in DescriptorNames : task[n] \in Settled
  /\ task[NamePool[6]] = "errored"
  /\ LastResult.errorCount = MaxFailures

\* definition d is definition c with at most the reservedConcurrency field removed
SameButForField(c, d) ==
  /\ DOMAIN d \subseteq DOMAIN c
  /\ DOMAIN c \ DOMAIN d \subseteq {"reservedConcurrency"}
  /\ \A key \in DOMAIN d : d[key] = c[key]

\* the step is one of the descriptor stripping
StrippingStep ==
  /\ run' = run
  /\ \/ functions' # functions
     \/ /\ Len(results') = Len(results) + 1
        /\ results'[Len(results')].op = OpSLS

\* the step is one of a remote reconciliation
ReconciliationStep ==
  /\ run' = run
  /\ \/ op # "none" \/ op' # "none"
     \/ requests' # requests
     \/ remote' # remote

(***************************************************************************)
(* C18: the frame of the two operations.  A step of the descriptor         *)
(* stripping keeps the list of function names and every field of every     *)
(* definition other than reservedConcurrency (the provisioned-concurrency  *)
(* settings among them), issues no remote request and changes no remote    *)
(* configuration.  A step of the remote reconciliation issues only         *)
(* getFunctionConfiguration and deleteFunctionConcurrency requests and     *)
(* leaves the descriptor as it is.                                         *)
(***************************************************************************)
C18_FrameOfStrippingAndReconciliation ==
  [][ /\ StrippingStep =>
           /\ Len(functions') = Len(functions)
           /\ \A k \in 1..Len(functions) :
                /\ functions'[k].name = functions[k].name
                /\ SameButForField(functions[k].config, functions'[k].config)
           /\ requests' = requests
           /\ remote' = remote
      /\ ReconciliationStep =>
           /\ functions' = functions
           /\ \A id \in DOMAIN requests' : DOMAIN requests'[id] = {"get", "del"}
           /\ \A id \in DOMAIN remote' :
                /\ DOMAIN remote[id] \ DOMAIN remote'[id]
                     \subseteq {"ReservedConcurrentExecutions"}
                /\ \A key \in DOMAIN remote'[id] :
                     key \in DOMAIN remote[id] /\ remote'[id][key] = remote[id][key]
    ]_vars

C18_Witness ==
  /\ Len(yml) = 3
  /\ \A k \in 1..3 :
       yml[k].config = [handler |-> "h", reservedConcurrency |-> 5,
                        concurrency |-> [provisioned |-> 1]]
  /\ \A k \in 1..3 :
       functions[k] = [name |-> yml[k].name,
                       config |-> [handler |-> "h", concurrency |-> [provisioned |-> 1]]]
  /\ requests[Identifier(NamePool[3])].del = 1
  /\ ~RemoteHasSetting(remote, NamePool[3])

\* a reconciliation of the batched implementation has just ended, in the first
\* run, over the one function of the descriptor: the bulk form over the list
\* of that function, or the single form with that function as its target
OneReconciled ==
  /\ variant = "batched"
  /\ op = "none"
  /\ run = 1
  /\ Len(functions) = 1
  /\ Len(results) > 0
  /\ LastResult.run = run
  /\ \/ LastResult.op = OpAws
     \/ /\ LastResult.op = OpAwsForFunction
        /\ HasFunctionOption
        /\ options.function = functions[1].name

\* what a reconciliation of one function shows: its requests, the remote
\* setting it leaves, the counts it returns, the promise of its hook
Observed(n) ==
  [get |-> requests[Identifier(n)].get,
   del |-> requests[Identifier(n)].del,
   setting |-> RemoteHasSetting(remote, n),
   modifiedCount |-> LastResult.modifiedCount,
   errorCount |-> LastResult.errorCount,
   hook |-> hookOutcome]

\* what it must show, from the name, the remote state before and the outcome
\* of the remote requests (whether one failed, and whether a delete was issued)
Expected(n, before, failed, deleteIssued) ==
  IF HoldsWarmUpMarker(Identifier(n))
  THEN [get |-> 0, del |-> 0, setting |-> RemoteHasSetting(before, n),
        modifiedCount |-> 0, errorCount |-> 0, hook |-> "resolved"]
  ELSE IF ~RemoteHasSetting(before, n)
  THEN [get |-> 1, del |-> 0, setting |-> FALSE,
        modifiedCount |-> 0, errorCount |-> failed, hook |-> "resolved"]
  ELSE IF failed = 0
  THEN [get |-> 1, del |-> 1, setting |-> FALSE,
        modifiedCount |-> 1, errorCount |-> 0, hook |-> "resolved"]
  ELSE [get |-> 1, del |-> IF deleteIssued THEN 1 ELSE 0, setting |-> TRUE,
        modifiedCount |-> 0, errorCount |-> 1, hook |-> "resolved"]

(***************************************************************************)
(* C19: the single-function reconciliation of n and the bulk               *)
(* reconciliation over the list [n] are the same procedure: for every name *)
(* n (a warm-up name included), every remote state and every outcome of    *)
(* the remote requests, both issue the same requests, leave the same       *)
(* remote state and return the same modifiedCount and errorCount, a remote *)
(* failure being counted and not raised; no other function is touched.     *)
(***************************************************************************)
C19_SingleIsBulkOverOne ==
  OneReconciled =>
    LET n == functions[1].name
    IN  /\ Observed(n) = Expected(n, remote0, failures, DeleteIssued(n))
        /\ \A other \in AllNames \ {n} :
             /\ RequestsFor(other) = 0
             /\ remote[Identifier(other)] = remote0[Identifier(other)]

C19_Witness ==
  /\ OneReconciled
  /\ LastResult.op = OpAwsForFunction
  /\ options.function = NamePool[1]
  /\ RemoteHasSetting(remote0, NamePool[1])
  /\ Observed(NamePool[1]) =
       [get |-> 1, del |-> 1, setting |-> TRUE,
        modifiedCount |-> 0, errorCount |-> 1, hook |-> "resolved"]

\* the functions of the list whose processing failed: the outcome of the run
FailedFunctions == TasksIn("errored")

\* the functions a bulk run over the list must relieve of their setting, from
\* the list, the remote state before the run and the failures alone
MustBeRelieved(before, failed) ==
  {n \in DescriptorNames :
     /\ ~HoldsWarmUpMarker(Identifier(n))
     /\ RemoteHasSetting(before, n)
     /\ n \notin failed}

(***************************************************************************)
(* C20: the sequential bulk reconciliation (src/src/index.ts) and the      *)
(* batched one (src/unnamed/part_000) agree on results: for the same list, *)
(* the same remote state before the run and the same functions failing,    *)
(* both return as modifiedCount the number of functions that carried the   *)
(* setting, are not warm-up functions and did not fail, as errorCount the  *)
(* number of functions that failed, both leave the remote state without    *)
(* the settings of the former and no other change, and both fetch each     *)
(* function that is not a warm-up function once.                           *)
(***************************************************************************)
C20_SequentialAndBatchedAgree ==
  (BulkDone /\ run = 1) =>
    /\ LastResult.modifiedCount = Cardinality(MustBeRelieved(remote0, FailedFunctions))
    /\ LastResult.errorCount = Cardinality(FailedFunctions)
    /\ remote = RemoteAfter(remote0, MustBeRelieved(remote0, FailedFunctions))
    /\ \A n \in AllNames :
         requests[Identifier(n)].get
           = IF n \in DescriptorNames /\ ~HoldsWarmUpMarker(Identifier(n)) THEN 1 ELSE 0

C20_Witness ==
  /\ BulkDone /\ run = 1
  /\ variant = "legacy"
  /\ Len(functions) = 7
  /\ {n \in DescriptorNames : RemoteHasSetting(remote0, n)}
       = {NamePool[1], NamePool[2], NamePool[5], NamePool[7]}
  /\ FailedFunctions = {NamePool[5]}
  /\ LastResult.modifiedCount = 2
  /\ LastResult.errorCount = 1

\* the step completes a descriptor stripping that is not the first of its run
LaterStrippingStep ==
  /\ Len(results') = Len(results) + 1
  /\ results'[Len(results')].op = OpSLS
  /\ StrippedThisRun

\* the descriptor strippings completed in the given run, in order
StrippingsOf(r) ==
  SelectSeq(results, LAMBDA x : x.run = r /\ x.op = OpSLS)

(***************************************************************************)
(* C21: descriptor stripping is idempotent across the extension points it  *)
(* is registered on.  A stripping that completes after another one of the  *)
(* same run reports modifiedCount = 0 and errorCount = 0 and leaves the    *)
(* descriptor exactly as it found it, with no definition carrying          *)
(* reservedConcurrency; and once no definition of the descriptor carries   *)
(* reservedConcurrency, no step of the same run brings the field back.     *)
(***************************************************************************)
C21_StrippingIsIdempotent ==
  [][ /\ LaterStrippingStep =>
           /\ results'[Len(results')].modifiedCount = 0
           /\ results'[Len(results')].errorCount = 0
           /\ CarriesField(functions) = {}
           /\ functions' = functions
      /\ (CarriesField(functions) = {} /\ run' = run) => CarriesField(functions') = {}
    ]_vars

\* a run of the batched variant stripped a descriptor with two carried fields
\* at its first extension point and found nothing at the two later ones
C21_Witness ==
  /\ variant = "batched"
  /\ Cardinality(CarriesField(yml)) = 2
  /\ Len(StrippingsOf(run)) = 3
  /\ StrippingsOf(run)[1].modifiedCount = 2
  /\ StrippingsOf(run)[2].modifiedCount = 0
  /\ StrippingsOf(run)[3].modifiedCount = 0
  /\ CarriesField(functions) = {}

====
